---- MODULE Spec2Model ----
(***************************************************************************)
(* FourierListener: registration, storage and recognition of fingerprinted *)
(* songs (recognise.py, storage.py).                                       *)
(*                                                                         *)
(* Time offsets are floats in the source.  Here an offset is an integer    *)
(* number of ticks, a tick being half of the histogram bin width of        *)
(* score_match, so that fractional and negative deltas are represented     *)
(* exactly.  Python's None is the string "None"; where a value is either   *)
(* None or a tuple it is NoneT, the one-element tuple of None, and a       *)
(* string returned in such a place is the one-element tuple of it.         *)
(***************************************************************************)
EXTENDS Integers, Sequences, FiniteSets, TLC

VARIABLES
    hashTable,    \* committed rows of table hash: <<hash, offset, song_id>>, in rowid order
    infoTable,    \* committed rows of table song_info: <<artist, album, title, song_id>>
    dbWriter,     \* the process whose connection holds SQLite's write transaction, or "None"
    lock,         \* holder of the multiprocessing.Lock made by register_directory, or "None"
    proc,         \* per process: position and local variables of the running call
    history,      \* per process: the calls it has completed, oldest first
    to_register,  \* register_directory: the list handed to Pool.map
    nextTask,     \* index of the next entry of to_register to hand to a worker
    taskResult,   \* per entry of to_register: "pending", "none" (returned) or the exception raised
    mainPc,       \* position of the process that called register_directory
    checkpoints,  \* number of times checkpoint_db has run
    bm            \* MatchScorer on its own: the state of best_match's loop

vars == <<hashTable, infoTable, dbWriter, lock, proc, history, to_register,
          nextTask, taskResult, mainPc, checkpoints, bm>>

dbVars == <<hashTable, infoTable, dbWriter>>
poolVars == <<to_register, nextTask, taskResult, mainPc, checkpoints>>

None == "None"
NoneT == <<None>>

-----------------------------------------------------------------------------
(* Bounds of the model *)

\* calls one interactive client makes
MaxCalls == 2
\* entries of to_register in one batch
MaxBatch == 2
\* songs in a MatchSet given to best_match on its own
MaxSongs == 2
\* offset pairs of one song of such a MatchSet
MaxPairs == 2
\* largest offset (ticks) in such a pair
MaxOffset == 5

-----------------------------------------------------------------------------
(* Processes *)

\* pool workers of register_directory: pool_init has set the global `lock` in each
Workers == {"w1", "w2"}
\* interactive processes (a shell, the web views): no global `lock` exists in them
Clients == {"c1", "c2"}
Procs == Workers \cup Clients

\* the global name `lock` is bound only where pool_init ran
lockDefined(p) == p \in Workers

-----------------------------------------------------------------------------
(* Files: the inputs of fingerprinting and of tag reading *)

\* files offered for registration
Paths == {"a.mp3", "b.mp3", "c.mp3"}
\* samples offered for recognition
Samples == {"q1.wav", "q2.wav"}

\* uuid.uuid5(NAMESPACE_OID, filename).int, stringified: a function of the path alone
song_id_of(filename) == "uuid5:" \o filename

\* hash_points: one (hash, anchor time, str(song_id)) per anchor/target pair, every
\* record carrying the id of the file's path; c.mp3 and q2.wav have no peak pair.
hash_points(pairs, filename) ==
    [i \in 1..Len(pairs) |-> <<pairs[i][1], pairs[i][2], song_id_of(filename)>>]

\* the (hash, anchor time) pairs the fingerprinting pipeline finds in each file
FilePairs(filename) ==
    CASE filename = "a.mp3" -> << <<11, 4>>, <<22, 6>>, <<11, 8>> >>
      [] filename = "b.mp3" -> << <<11, 2>> >>
      [] filename = "c.mp3" -> << >>
      [] filename = "q1.wav" -> << <<11, 1>>, <<11, 3>> >>
      [] filename = "q2.wav" -> << >>
      [] filename = "recorded" -> << <<11, 5>>, <<22, 1>>, <<33, 0>> >>
      [] OTHER -> << >>

fingerprint_file(filename) == hash_points(FilePairs(filename), filename)

\* fingerprint_audio hashes the recording under the fixed name "recorded"
fingerprint_audio == hash_points(FilePairs("recorded"), "recorded")

\* TinyTag.get(filename): each field may be absent
FileTags(filename) ==
    CASE filename = "a.mp3" ->
           [albumartist |-> None, artist |-> "Artist A", album |-> None, title |-> "Title A"]
      [] filename = "b.mp3" ->
           [albumartist |-> "Various", artist |-> "Artist B", album |-> "Album B", title |-> None]
      [] OTHER ->
           [albumartist |-> None, artist |-> None, album |-> None, title |-> None]

\* the builtin print writes its argument and returns None
py_print(x) == NoneT

\* get_song_info: the tuple is built, printed, and print's value is returned
tag_tuple(filename) ==
    LET tag == FileTags(filename)
        artist == IF tag.albumartist = None THEN tag.artist ELSE tag.albumartist
    IN  <<artist, tag.album, tag.title>>

\* variant of get_song_info that returns the tuple itself
get_song_info_tuple(filename) == tag_tuple(filename)

get_song_info(filename) == py_print(tag_tuple(filename))

-----------------------------------------------------------------------------
(* MatchScorer: score_match and best_match (recognise.py) *)

\* binwidth = 0.5 seconds, in ticks of a quarter second
binwidth == 2
\* one second is two bins
TicksPerSecond == 2 * binwidth

\* int(x) of a float: truncation toward zero, to whole seconds
py_int(t) == IF t >= 0 THEN t \div TicksPerSecond ELSE -((-t) \div TicksPerSecond)

RECURSIVE seq_min(_)
seq_min(s) ==
    IF Len(s) = 1 THEN s[1]
    ELSE LET m == seq_min(Tail(s)) IN IF s[1] < m THEN s[1] ELSE m

RECURSIVE seq_max(_)
seq_max(s) ==
    IF Len(s) = 1 THEN s[1]
    ELSE LET m == seq_max(Tail(s)) IN IF s[1] > m THEN s[1] ELSE m

\* np.arange(start, stop, step): start, start+step, ... below stop
np_arange(start, stop, step) ==
    LET n == IF stop > start THEN (stop - start + step - 1) \div step ELSE 0
    IN  [i \in 1..n |-> start + (i - 1) * step]

\* np.histogram(a, bins=edges)[0]: bin i counts edges[i] <= x < edges[i+1]; the
\* last bin also takes x = its right edge; values outside the edges are dropped
np_histogram(a, edges) ==
    [i \in 1..(Len(edges) - 1) |->
        Cardinality({k \in 1..Len(a) :
            /\ edges[i] <= a[k]
            /\ IF i = Len(edges) - 1 THEN a[k] <= edges[i + 1] ELSE a[k] < edges[i + 1]})]

\* the deltas stored offset - query offset of the pairs
deltas(offsets) == [k \in 1..Len(offsets) |-> offsets[k][1] - offsets[k][2]]

\* np.arange(int(min(tks)), int(max(tks)) + binwidth + 1, binwidth)
bin_edges(tks) ==
    np_arange(py_int(seq_min(tks)) * TicksPerSecond,
              py_int(seq_max(tks)) * TicksPerSecond + binwidth + TicksPerSecond,
              binwidth)

\* the histogram score_match builds
score_hist(offsets) == np_histogram(deltas(offsets), bin_edges(deltas(offsets)))

\* score_match: np.max(hist)
score_match(offsets) == seq_max(score_hist(offsets))

\* variant of is_better in which a tie replaces the song found so far
is_better_or_equal(score, best_score) == score >= best_score

\* best_match: `if score > best_score`
is_better(score, best_score) == score > best_score

\* best_match: `if len(offsets) < best_score: continue`
can_skip(offsets, best_score) == Len(offsets) < best_score

\* best_match before its loop
best_match_init == [matched_song |-> None, best_score |-> 0]

\* one iteration of best_match's loop, on the item (song_id, offsets)
best_match_body(st, song_id, offsets) ==
    IF can_skip(offsets, st.best_score) THEN st
    ELSE LET score == score_match(offsets)
         IN  IF is_better(score, st.best_score)
             THEN [matched_song |-> song_id, best_score |-> score]
             ELSE st

RECURSIVE best_match_loop(_, _)
best_match_loop(st, items) ==
    IF items = << >> THEN st
    ELSE best_match_loop(best_match_body(st, items[1][1], items[1][2]), Tail(items))

\* best_match(matches); matches is the dict as the sequence of its items,
\* <<song_id, offsets>>, in insertion order
best_match(matches) == best_match_loop(best_match_init, matches).matched_song

-----------------------------------------------------------------------------
(* FingerprintStore: the queries of storage.py, on the committed tables *)

\* song_in_db: SELECT * FROM song_info WHERE song_id=? ; fetchone() is not None
song_in_db(filename, info) ==
    \E i \in 1..Len(info) : info[i][4] = song_id_of(filename)

\* variant of h_dict_of that keeps the first offset seen for a hash
RECURSIVE h_dict_first(_)
h_dict_first(hashes) ==
    IF hashes = << >> THEN << >>
    ELSE LET d == h_dict_first(Tail(hashes))
             h == hashes[1][1]
         IN  [x \in DOMAIN d \cup {h} |-> IF x = h THEN hashes[1][2] ELSE d[x]]

\* get_matches: `for h, t, _ in hashes: h_dict[h] = t`
RECURSIVE h_dict_of(_)
h_dict_of(hashes) ==
    IF hashes = << >> THEN << >>
    ELSE LET front == SubSeq(hashes, 1, Len(hashes) - 1)
             d == h_dict_of(front)
             h == hashes[Len(hashes)][1]
         IN  [x \in DOMAIN d \cup {h} |-> IF x = h THEN hashes[Len(hashes)][2] ELSE d[x]]

\* the values of the IN list
in_values(hashes) == {hashes[i][1] : i \in 1..Len(hashes)}

\* SELECT hash, offset, song_id FROM hash WHERE hash IN (...)
select_hash_in(hashes, table) ==
    LET keep(r) == r[1] \in in_values(hashes) IN SelectSeq(table, keep)

\* result_dict[r[2]].append((r[1], h_dict[r[0]])) on a defaultdict(list)
append_match(result_dict, r, h_dict) ==
    LET pair == <<r[2], h_dict[r[1]]>>
        at == {i \in 1..Len(result_dict) : result_dict[i][1] = r[3]}
    IN  IF at = {} THEN Append(result_dict, <<r[3], <<pair>> >>)
        ELSE [i \in 1..Len(result_dict) |->
                IF i \in at THEN <<r[3], Append(result_dict[i][2], pair)>>
                ELSE result_dict[i]]

RECURSIVE group_results(_, _, _)
group_results(result_dict, results, h_dict) ==
    IF results = << >> THEN result_dict
    ELSE group_results(append_match(result_dict, results[1], h_dict), Tail(results), h_dict)

\* get_matches(hashes) on the committed hash table
get_matches(hashes, table) ==
    group_results(<< >>, select_hash_in(hashes, table), h_dict_of(hashes))

\* get_info_for_song_id: SELECT artist, album, title ... ; fetchone()
get_info_for_song_id(song_id, info) ==
    LET at == {i \in 1..Len(info) : info[i][4] = song_id}
    IN  IF at = {} THEN NoneT
        ELSE LET i == CHOOSE i \in at : \A j \in at : i <= j
             IN  <<info[i][1], info[i][2], info[i][3]>>

\* store_song: [i if i is not None else "Unknown" for i in song_info]
insert_info(song_info) ==
    [k \in 1..Len(song_info) |-> IF song_info[k] # None THEN song_info[k] ELSE "Unknown"]

-----------------------------------------------------------------------------
(* Exceptions and the SQLite connection of get_cursor *)

\* UnboundLocalError is a subclass of NameError: `except NameError` catches both
is_name_error(e) == e \in {"NameError", "UnboundLocalError"}

\* get_cursor when sqlite3.connect raises: the finally clause runs conn.close()
\* with conn never bound, and that UnboundLocalError is what the caller sees
connect_failure == "UnboundLocalError"

\* store_song: `if len(hashes) < 1: return`; the variant never returns early
no_hashes_never(hashes) == Len(hashes) < 0

no_hashes(hashes) == Len(hashes) < 1

\* variant of after_executemany for a connection in autocommit mode
after_executemany_autocommit(table, rows) == table \o rows

\* the committed hash table after c.executemany(INSERT ...): sqlite3.connect's
\* default isolation level opens a transaction before the first INSERT, so the
\* rows stay inside the connection until conn.commit()
after_executemany(table, rows) == table

\* the committed hash table after conn.commit()
after_commit(table, rows) == table \o rows

\* the song_info row store_song inserts: (*insert_info, hashes[0][2])
info_row(hashes, song_info) == insert_info(song_info) \o <<hashes[1][3]>>

-----------------------------------------------------------------------------
(* Processes: position and locals of the call a process is running *)

IdleProc ==
    [pc |-> "idle", op |-> "none", ctx |-> "none", filename |-> None,
     hashes |-> << >>, song_info |-> NoneT, exc |-> "none", ret |-> NoneT,
     matches |-> << >>, matched_song |-> None, info |-> NoneT,
     skipped |-> FALSE, wrote |-> FALSE, task |-> 0]

\* proc with the fields of process p changed as record r says
with_proc(p, r) == [proc EXCEPT ![p] = r]

\* store_song returns (e = "none") or raises e: control goes back to the caller.
\* Inside `with lock:` the lock is still held until the block is left.
store_song_exit(p, e, wrote) ==
    [proc[p] EXCEPT !.pc = IF proc[p].ctx = "locked" THEN "rs_unlock" ELSE "done",
                    !.exc = e,
                    !.wrote = wrote]

\* the process is executing store_song
in_store_song(p) == proc[p].pc \in {"ss_enter", "ss_executemany", "ss_info"}

-----------------------------------------------------------------------------
(* register_song (recognise.py 26-45) *)

\* `if song_in_db(filename): return`
SongInDb(p) ==
    /\ proc[p].pc = "rs_check"
    /\ proc' = with_proc(p,
          IF song_in_db(proc[p].filename, infoTable)
          THEN [proc[p] EXCEPT !.pc = "done", !.skipped = TRUE]
          ELSE [proc[p] EXCEPT !.pc = "rs_fingerprint"])
    /\ UNCHANGED <<dbVars, lock, history, poolVars, bm>>

\* hashes = fingerprint_file(filename); song_info = get_song_info(filename)
Fingerprint(p) ==
    /\ proc[p].pc = "rs_fingerprint"
    /\ proc' = with_proc(p, [proc[p] EXCEPT !.pc = "rs_lock",
                                           !.hashes = fingerprint_file(proc[p].filename),
                                           !.song_info = get_song_info(proc[p].filename)])
    /\ UNCHANGED <<dbVars, lock, history, poolVars, bm>>

\* `with lock:` in a pool worker: blocks until the lock is free
AcquireLock(p) ==
    /\ proc[p].pc = "rs_lock"
    /\ lockDefined(p)
    /\ lock = None
    /\ lock' = p
    /\ proc' = with_proc(p, [proc[p] EXCEPT !.pc = "ss_enter", !.ctx = "locked"])
    /\ UNCHANGED <<dbVars, history, poolVars, bm>>

\* `with lock:` where no global lock exists: NameError, caught by
\* `except NameError`, whose handler calls store_song
LockUndefined(p) ==
    /\ proc[p].pc = "rs_lock"
    /\ ~lockDefined(p)
    /\ proc' = with_proc(p, [proc[p] EXCEPT !.pc = "ss_enter", !.ctx = "fallback"])
    /\ UNCHANGED <<dbVars, lock, history, poolVars, bm>>

\* leaving `with lock:` releases the lock; an exception that is a NameError is
\* caught by the handler, which calls store_song again; any other propagates
ReleaseLock(p) ==
    /\ proc[p].pc = "rs_unlock"
    /\ lock' = None
    /\ proc' = with_proc(p,
          IF is_name_error(proc[p].exc)
          THEN [proc[p] EXCEPT !.pc = "ss_enter", !.ctx = "fallback", !.exc = "none"]
          ELSE [proc[p] EXCEPT !.pc = "done"])
    /\ UNCHANGED <<dbVars, history, poolVars, bm>>

-----------------------------------------------------------------------------
(* store_song (storage.py 53-68) *)

\* the length check, then get_cursor connects
StoreSongEnter(p) ==
    /\ proc[p].pc = "ss_enter"
    /\ proc' = with_proc(p,
          IF no_hashes(proc[p].hashes)
          THEN store_song_exit(p, "none", FALSE)
          ELSE [proc[p] EXCEPT !.pc = "ss_executemany"])
    /\ UNCHANGED <<dbVars, lock, history, poolVars, bm>>

\* get_cursor: sqlite3.connect raises
StoreConnectFail(p) ==
    /\ proc[p].pc = "ss_enter"
    /\ ~no_hashes(proc[p].hashes)
    /\ proc' = with_proc(p, store_song_exit(p, connect_failure, FALSE))
    /\ UNCHANGED <<dbVars, lock, history, poolVars, bm>>

\* c.executemany("INSERT INTO hash ..."): takes SQLite's write lock
ExecuteMany(p) ==
    /\ proc[p].pc = "ss_executemany"
    /\ dbWriter = None
    /\ dbWriter' = p
    /\ hashTable' = after_executemany(hashTable, proc[p].hashes)
    /\ proc' = with_proc(p, [proc[p] EXCEPT !.pc = "ss_info"])
    /\ UNCHANGED <<infoTable, lock, history, poolVars, bm>>

\* another connection holds the write lock for longer than timeout=30:
\* OperationalError (database is locked); get_cursor closes the connection
ExecuteManyTimeout(p) ==
    /\ proc[p].pc = "ss_executemany"
    /\ dbWriter \notin {None, p}
    /\ proc' = with_proc(p, store_song_exit(p, "OperationalError", FALSE))
    /\ UNCHANGED <<dbVars, lock, history, poolVars, bm>>

\* insert_info = [...]; c.execute("INSERT INTO song_info ..."); conn.commit().
\* Iterating a song_info that is None raises TypeError, hashes[0] of an empty
\* list IndexError; get_cursor then closes the connection, which rolls the
\* open transaction back.
InsertInfoCommit(p) ==
    /\ proc[p].pc = "ss_info"
    /\ dbWriter' = None
    /\ IF proc[p].song_info = NoneT
       THEN /\ proc' = with_proc(p, store_song_exit(p, "TypeError", FALSE))
            /\ UNCHANGED <<hashTable, infoTable>>
       ELSE IF proc[p].hashes = << >>
       THEN /\ proc' = with_proc(p, store_song_exit(p, "IndexError", FALSE))
            /\ UNCHANGED <<hashTable, infoTable>>
       ELSE /\ hashTable' = after_commit(hashTable, proc[p].hashes)
            /\ infoTable' = Append(infoTable, info_row(proc[p].hashes, proc[p].song_info))
            /\ proc' = with_proc(p, store_song_exit(p, "none", TRUE))
    /\ UNCHANGED <<lock, history, poolVars, bm>>

-----------------------------------------------------------------------------
(* recognise_song / listen_to_song (recognise.py 121-160) *)

\* matches = get_matches(hashes); matched_song = best_match(matches)
GetMatches(p) ==
    /\ proc[p].pc = "rc_matches"
    /\ LET m == get_matches(proc[p].hashes, hashTable)
       IN  proc' = with_proc(p, [proc[p] EXCEPT !.pc = "rc_info",
                                              !.matches = m,
                                              !.matched_song = best_match(m)])
    /\ UNCHANGED <<dbVars, lock, history, poolVars, bm>>

\* info = get_info_for_song_id(matched_song); `return print(info)` when a row
\* was found, else print a message and `return matched_song`
GetInfo(p) ==
    /\ proc[p].pc = "rc_info"
    /\ LET info == get_info_for_song_id(proc[p].matched_song, infoTable)
       IN  proc' = with_proc(p, [proc[p] EXCEPT !.pc = "done",
                                              !.info = info,
                                              !.ret = IF info # NoneT THEN py_print(info)
                                                      ELSE <<proc[p].matched_song>>])
    /\ UNCHANGED <<dbVars, lock, history, poolVars, bm>>

\* get_cursor of song_in_db, get_matches or get_info_for_song_id: connect raises
ReadConnectFail(p) ==
    /\ proc[p].pc \in {"rs_check", "rc_matches", "rc_info"}
    /\ proc' = with_proc(p, [proc[p] EXCEPT !.pc = "done", !.exc = connect_failure])
    /\ UNCHANGED <<dbVars, lock, history, poolVars, bm>>

-----------------------------------------------------------------------------
(* Interactive callers: a process calls the functions one after the other *)

\* the song_info arguments tried on store_song: None, a tuple with an absent
\* value and a tuple of absent values
SongInfos == {NoneT, tag_tuple("a.mp3"), tag_tuple("c.mp3")}

\* calls started so far, by all clients
calls_started ==
    LET n(c) == Len(history[c]) + (IF proc[c].pc = "idle" THEN 0 ELSE 1)
    IN  n("c1") + n("c2")

can_call(c) == c \in Clients /\ proc[c].pc = "idle" /\ calls_started < MaxCalls

\* register_song(f)
StartRegister(c) ==
    /\ can_call(c)
    /\ \E f \in Paths :
          proc' = with_proc(c, [IdleProc EXCEPT !.pc = "rs_check",
                                                !.op = "register_song",
                                                !.filename = f])
    /\ UNCHANGED <<dbVars, lock, history, poolVars, bm>>

\* store_song(hashes, song_info), hashes being those of file f
StartStore(c) ==
    /\ can_call(c)
    /\ \E f \in Paths, si \in SongInfos :
          proc' = with_proc(c, [IdleProc EXCEPT !.pc = "ss_enter",
                                                !.op = "store_song",
                                                !.ctx = "direct",
                                                !.filename = f,
                                                !.hashes = fingerprint_file(f),
                                                !.song_info = si])
    /\ UNCHANGED <<dbVars, lock, history, poolVars, bm>>

\* recognise_song(q): hashes = fingerprint_file(q)
StartRecognise(c) ==
    /\ can_call(c)
    /\ \E q \in Samples :
          proc' = with_proc(c, [IdleProc EXCEPT !.pc = "rc_matches",
                                                !.op = "recognise_song",
                                                !.filename = q,
                                                !.hashes = fingerprint_file(q)])
    /\ UNCHANGED <<dbVars, lock, history, poolVars, bm>>

\* listen_to_song(): hashes = fingerprint_audio(record_audio())
StartListen(c) ==
    /\ can_call(c)
    /\ proc' = with_proc(c, [IdleProc EXCEPT !.pc = "rc_matches",
                                             !.op = "listen_to_song",
                                             !.filename = "recorded",
                                             !.hashes = fingerprint_audio])
    /\ UNCHANGED <<dbVars, lock, history, poolVars, bm>>

\* the call is over: its outcome is what the caller has seen
Return(c) ==
    /\ c \in Clients
    /\ proc[c].pc = "done"
    /\ history' = [history EXCEPT ![c] = Append(@, proc[c])]
    /\ proc' = with_proc(c, IdleProc)
    /\ UNCHANGED <<dbVars, lock, poolVars, bm>>

-----------------------------------------------------------------------------
(* register_directory (recognise.py 48-76): Pool.map over to_register.        *)
(* Pool.map cuts the list in chunks of ceil(len / (4 * NUM_WORKERS)) entries: *)
(* one entry each for the batches here.  A task that raises does not stop     *)
(* its worker; map waits for every task, then re-raises the first exception.  *)

\* an idle worker takes the next entry
TakeTask(w) ==
    /\ w \in Workers
    /\ mainPc = "map"
    /\ proc[w].pc = "idle"
    /\ nextTask <= Len(to_register)
    /\ proc' = with_proc(w, [IdleProc EXCEPT !.pc = "rs_check",
                                             !.op = "register_song",
                                             !.filename = to_register[nextTask],
                                             !.task = nextTask])
    /\ nextTask' = nextTask + 1
    /\ UNCHANGED <<dbVars, lock, history, to_register, taskResult, mainPc, checkpoints, bm>>

\* the worker reports the task's outcome
TaskDone(w) ==
    /\ w \in Workers
    /\ proc[w].pc = "done"
    /\ taskResult' = [taskResult EXCEPT ![proc[w].task] = proc[w].exc]
    /\ history' = [history EXCEPT ![w] = Append(@, proc[w])]
    /\ proc' = with_proc(w, IdleProc)
    /\ UNCHANGED <<dbVars, lock, to_register, nextTask, mainPc, checkpoints, bm>>

\* p.map returns once every task has reported, or raises a task's exception,
\* which leaves register_directory before checkpoint_db()
MapReturn ==
    /\ mainPc = "map"
    /\ \A i \in 1..Len(to_register) : taskResult[i] # "pending"
    /\ mainPc' = IF \E i \in 1..Len(to_register) : taskResult[i] # "none"
                 THEN "raised" ELSE "checkpoint"
    /\ UNCHANGED <<dbVars, lock, proc, history, to_register, nextTask, taskResult,
                   checkpoints, bm>>

\* checkpoint_db(): PRAGMA wal_checkpoint(FULL)
Checkpoint ==
    /\ mainPc = "checkpoint"
    /\ checkpoints' = checkpoints + 1
    /\ mainPc' = "done"
    /\ UNCHANGED <<dbVars, lock, proc, history, to_register, nextTask, taskResult, bm>>

-----------------------------------------------------------------------------
(* MatchScorer on its own: best_match's loop, one item of the MatchSet a step *)

\* the offset pairs (stored offset, query offset) an item is built from
OffsetPairs == (0..MaxOffset) \X (0..1)

\* the non-empty lists of at most MaxPairs pairs: get_matches makes no empty list
OffsetLists == UNION {[1..n -> OffsetPairs] : n \in 1..MaxPairs}

BmInit == [st |-> best_match_init, seen |-> << >>, span |-> << >>, hist |-> << >>,
           done |-> FALSE, result |-> None]

\* one iteration of `for song_id, offsets in matches.items()`; seen keeps, for
\* every item so far, its song id, its score_match and its number of pairs,
\* span the smallest and the largest delta of the item, hist the histogram
\* score_match builds for it
BestMatchIter ==
    /\ ~bm.done
    /\ Len(bm.seen) < MaxSongs
    /\ \E offsets \in OffsetLists :
          LET song_id == "song" \o ToString(Len(bm.seen) + 1)
          IN  bm' = [bm EXCEPT !.st = best_match_body(bm.st, song_id, offsets),
                               !.seen = Append(@, <<song_id, score_match(offsets), Len(offsets)>>),
                               !.span = <<seq_min(deltas(offsets)), seq_max(deltas(offsets))>>,
                               !.hist = score_hist(offsets)]
    /\ UNCHANGED <<dbVars, lock, proc, history, poolVars>>

\* `return matched_song`
BestMatchReturn ==
    /\ ~bm.done
    /\ bm' = [bm EXCEPT !.done = TRUE, !.result = bm.st.matched_song]
    /\ UNCHANGED <<dbVars, lock, proc, history, poolVars>>

-----------------------------------------------------------------------------
(* Initial states and specifications *)

\* the tables after store_song(fingerprint_file(f), tag_tuple(f)) for each f of fs
RECURSIVE stored_hashes(_)
stored_hashes(fs) ==
    IF fs = << >> THEN << >>
    ELSE after_commit(stored_hashes(SubSeq(fs, 1, Len(fs) - 1)), fingerprint_file(fs[Len(fs)]))

RECURSIVE stored_infos(_)
stored_infos(fs) ==
    IF fs = << >> THEN << >>
    ELSE Append(stored_infos(SubSeq(fs, 1, Len(fs) - 1)),
                info_row(fingerprint_file(fs[Len(fs)]), tag_tuple(fs[Len(fs)])))

\* the songs found in hash.db when a run starts: none (after setup_db), or some
\* stored by earlier store_song calls
InitialSongs == {<< >>, <<"b.mp3">>, <<"b.mp3", "a.mp3">>}

\* the lists os.walk may collect
Batches == UNION {[1..n -> Paths] : n \in 1..MaxBatch}

InitCommon ==
    /\ \E fs \in InitialSongs :
          /\ hashTable = stored_hashes(fs)
          /\ infoTable = stored_infos(fs)
    /\ dbWriter = None
    /\ lock = None
    /\ proc = [p \in Procs |-> IdleProc]
    /\ history = [p \in Procs |-> << >>]
    /\ checkpoints = 0
    /\ bm = BmInit

\* register_directory has collected to_register and started the pool
Init ==
    /\ InitCommon
    /\ to_register \in Batches
    /\ nextTask = 1
    /\ taskResult = [i \in 1..Len(to_register) |-> "pending"]
    /\ mainPc = "map"

Next ==
    \/ \E w \in Workers :
          \/ TakeTask(w)
          \/ SongInDb(w)
          \/ ReadConnectFail(w)
          \/ Fingerprint(w)
          \/ AcquireLock(w)
          \/ StoreSongEnter(w)
          \/ StoreConnectFail(w)
          \/ ExecuteMany(w)
          \/ ExecuteManyTimeout(w)
          \/ InsertInfoCommit(w)
          \/ ReleaseLock(w)
          \/ TaskDone(w)
    \/ MapReturn
    \/ Checkpoint

\* bulk registration: register_directory with its pool of workers
Spec == Init /\ [][Next]_vars

\* bulk registration in which the processes keep running: a worker that can
\* step, and the parent blocked in p.map or about to call checkpoint_db, are
\* scheduled by the operating system until nothing is left to do
SpecLive == Spec /\ WF_vars(Next)

\* no pool: interactive processes call the functions
InitClient ==
    /\ InitCommon
    /\ to_register = << >>
    /\ nextTask = 1
    /\ taskResult = << >>
    /\ mainPc = "none"

NextClient ==
    \E c \in Clients :
        \/ StartRegister(c)
        \/ StartStore(c)
        \/ StartRecognise(c)
        \/ StartListen(c)
        \/ SongInDb(c)
        \/ ReadConnectFail(c)
        \/ Fingerprint(c)
        \/ LockUndefined(c)
        \/ StoreSongEnter(c)
        \/ StoreConnectFail(c)
        \/ ExecuteMany(c)
        \/ ExecuteManyTimeout(c)
        \/ InsertInfoCommit(c)
        \/ GetMatches(c)
        \/ GetInfo(c)
        \/ Return(c)

SpecClient == InitClient /\ [][NextClient]_vars

\* best_match called on MatchSets built item by item
InitMatch ==
    /\ InitClient
    /\ hashTable = << >>

NextMatch == BestMatchIter \/ BestMatchReturn

SpecMatch == InitMatch /\ [][NextMatch]_vars

-----------------------------------------------------------------------------
(* Properties *)

\* an exception that reports a failure of the database connection, not of the call
infrastructure_failure(e) == e \in {"UnboundLocalError", "OperationalError"}

\* the committed hash rows that carry the id of file f, in table order
hash_rows_of(f) ==
    LET keep(r) == r[3] = song_id_of(f) IN SelectSeq(hashTable, keep)

\* the number of committed song_info rows that carry the id of file f
info_count_of(f) == Cardinality({i \in 1..Len(infoTable) : infoTable[i][4] = song_id_of(f)})

\* C1: during a bulk registration every worker that is inside store_song holds
\* the pool's lock, and at most one worker is inside store_song at any moment.
C1_StoreWritesSerialized ==
    /\ \A w \in Workers : in_store_song(w) => lock = w
    /\ \A v, w \in Workers : in_store_song(v) /\ in_store_song(w) => v = w

\* C2: every song has hash rows visible exactly when its song_info row is
\* visible, and the visible tables change only at the commit of a store_song
\* call, by all the rows of that call at once: a call that fails changes nothing.
C2_PairedRows ==
    \A f \in Paths \cup {"recorded"} : (hash_rows_of(f) # << >>) <=> (info_count_of(f) > 0)

C2_WholeCommit ==
    (hashTable' # hashTable \/ infoTable' # infoTable) =>
        \E p \in Procs :
            /\ proc[p].pc = "ss_info"
            /\ proc'[p].exc = "none"
            /\ hashTable' = hashTable \o proc[p].hashes
            /\ infoTable' = Append(infoTable,
                                   insert_info(proc[p].song_info) \o <<proc[p].hashes[1][3]>>)

\* C2: store_song is atomic per call (the two statements above, together)
C2_StoreSongAtomic == [](C2_PairedRows) /\ [][C2_WholeCommit]_vars

\* a reader is between its two queries while a writer has inserted hash rows
\* that it has not committed
C2_Witness ==
    \E c, d \in Clients :
        /\ proc[c].pc = "ss_info"
        /\ proc[c].hashes # << >>
        /\ proc[d].pc = "rc_info"

\* C3: after two register_song calls on the same path, one after the other and
\* with nothing else running, the path being a file that has hashes, there is
\* exactly one song_info row of the song and the hash rows of one pass, and the
\* second call has raised nothing and written nothing.
C3_RegisterTwiceIdempotent ==
    \A c \in Clients, f \in Paths :
        ( /\ Len(history[c]) = 2
          /\ \A k \in 1..2 : /\ history[c][k].op = "register_song"
                             /\ history[c][k].filename = f
                             /\ ~infrastructure_failure(history[c][k].exc)
          /\ fingerprint_file(f) # << >>
          /\ \A d \in Clients \ {c} : history[d] = << >> /\ proc[d].pc = "idle" )
        => /\ info_count_of(f) = 1
           /\ hash_rows_of(f) = fingerprint_file(f)
           /\ history[c][2].exc = "none"
           /\ ~history[c][2].wrote

RECURSIVE top_score(_)
top_score(seen) ==
    IF seen = << >> THEN 0
    ELSE LET m == top_score(Tail(seen)) IN IF seen[1][2] > m THEN seen[1][2] ELSE m

\* the first song whose score is the largest, None when every score is 0
first_with_top_score(seen) ==
    IF top_score(seen) = 0 THEN None
    ELSE LET at == {i \in 1..Len(seen) : seen[i][2] = top_score(seen)}
         IN  seen[CHOOSE i \in at : \A j \in at : i <= j][1]

\* C5: best_match holds, and returns, the first song of largest score among the
\* items it has iterated over, None when there is none or every score is 0; no
\* score exceeds the number of pairs of its song.
C5_BestMatchIsFirstLargest ==
    /\ bm.st.matched_song = first_with_top_score(bm.seen)
    /\ bm.st.best_score = top_score(bm.seen)
    /\ \A i \in 1..Len(bm.seen) : bm.seen[i][2] <= bm.seen[i][3]
    /\ bm.done => bm.result = first_with_top_score(bm.seen)

\* best_match has returned the first song after skipping the second, whose
\* number of pairs is below the first song's score
C5_Witness ==
    /\ bm.done
    /\ Len(bm.seen) = 2
    /\ bm.seen[2][3] < bm.seen[1][2]
    /\ bm.result = bm.seen[1][1]

\* the query offset get_matches pairs with hash h: that of the last, or of the
\* first, query record carrying h
last_offset(hashes, h) ==
    LET at == {i \in 1..Len(hashes) : hashes[i][1] = h}
    IN  hashes[CHOOSE i \in at : \A j \in at : j <= i][2]

first_offset(hashes, h) ==
    LET at == {i \in 1..Len(hashes) : hashes[i][1] = h}
    IN  hashes[CHOOSE i \in at : \A j \in at : i <= j][2]

\* m holds one item per song that has a stored row whose hash is among the
\* query hashes, and in it exactly one pair per such row: the row's offset
\* with the query offset pick(hash) (pick is TRUE for the last, FALSE for the first)
matches_are(m, hashes, table, pick_last) ==
    LET hit == {j \in 1..Len(table) : \E i \in 1..Len(hashes) : hashes[i][1] = table[j][1]}
        pair_of(j) == <<table[j][2],
                        IF pick_last THEN last_offset(hashes, table[j][1])
                        ELSE first_offset(hashes, table[j][1])>>
    IN  /\ {m[i][1] : i \in 1..Len(m)} = {table[j][3] : j \in hit}
        /\ \A i, k \in 1..Len(m) : m[i][1] = m[k][1] => i = k
        /\ \A i \in 1..Len(m) :
              LET rows == {j \in hit : table[j][3] = m[i][1]}
              IN  /\ Len(m[i][2]) = Cardinality(rows)
                  /\ \A j \in rows :
                        Cardinality({k \in 1..Len(m[i][2]) : m[i][2][k] = pair_of(j)})
                          = Cardinality({l \in rows : pair_of(l) = pair_of(j)})

\* the step in which process p runs get_matches
get_matches_step(p) == proc[p].pc = "rc_matches" /\ proc'[p].pc = "rc_info"

\* C6 as stated: the pair of a stored row carries the offset of the FIRST query
\* record that has the row's hash.
C6_PairsCarryFirstQueryOffset ==
    [][\A p \in Procs : get_matches_step(p) =>
          matches_are(proc'[p].matches, proc[p].hashes, hashTable, FALSE)]_vars

\* C6 amended: get_matches returns, grouped by song id, exactly one pair per
\* stored row whose hash is among the query hashes, and the pair carries the
\* offset of the LAST query record that has the row's hash.
C6_PairsCarryLastQueryOffset ==
    [][\A p \in Procs : get_matches_step(p) =>
          matches_are(proc'[p].matches, proc[p].hashes, hashTable, TRUE)]_vars

\* get_matches has run on q1.wav, whose two records share a hash, and found rows
C6_Witness ==
    \E p \in Procs :
        /\ proc[p].pc = "rc_info"
        /\ proc[p].filename = "q1.wav"
        /\ proc[p].matches # << >>

\* C7: a recognise_song or listen_to_song call that ends without a connection
\* failure returns the song_info values of the song best_match chose when that
\* song has a song_info row, and None when no song was chosen.
C7_RecogniseReturnsSongInfo ==
    \A p \in Procs :
        ( /\ proc[p].pc = "done"
          /\ proc[p].op \in {"recognise_song", "listen_to_song"}
          /\ ~infrastructure_failure(proc[p].exc) )
        => /\ proc[p].exc = "none"
           /\ proc[p].info # NoneT => proc[p].ret = proc[p].info
           /\ proc[p].matched_song = None => proc[p].ret = NoneT

\* C8: a store_song call on an empty hash list returns at its first step,
\* raises nothing and changes neither table, whatever its song_info; no file
\* without hashes is ever in the store, and register_song on such a file
\* raises nothing unless the connection of song_in_db fails.
C8_EmptyStoreStep ==
    \A p \in Procs :
        (in_store_song(p) /\ proc[p].hashes = << >> /\ proc'[p] # proc[p])
        => /\ proc'[p].exc = "none"
           /\ ~proc'[p].wrote
           /\ proc'[p].pc \in {"done", "rs_unlock"}
           /\ hashTable' = hashTable
           /\ infoTable' = infoTable

C8_EmptyNeverStored ==
    /\ \A f \in Paths : fingerprint_file(f) = << >> =>
          ~song_in_db(f, infoTable) /\ hash_rows_of(f) = << >>
    /\ \A p \in Procs :
          ( /\ proc[p].pc = "done"
            /\ proc[p].op = "register_song"
            /\ fingerprint_file(proc[p].filename) = << >>
            /\ ~infrastructure_failure(proc[p].exc) )
          => proc[p].exc = "none" /\ ~proc[p].wrote

\* C8: store_song on an empty hash list is a no-op (the two statements above, together)
C8_EmptyHashesStoreNothing == [](C8_EmptyNeverStored) /\ [][C8_EmptyStoreStep]_vars

\* register_song on the file without hashes has been through store_song, and a
\* direct store_song call with an empty list and a None song_info has returned
C8_Witness ==
    /\ \E p \in Procs :
          /\ proc[p].pc = "done"
          /\ proc[p].op = "register_song"
          /\ proc[p].filename = "c.mp3"
          /\ proc[p].ctx = "fallback"
    /\ \E p \in Procs :
          /\ Len(history[p]) = 1
          /\ history[p][1].op = "store_song"
          /\ history[p][1].hashes = << >>
          /\ history[p][1].song_info = NoneT

\* the song_info row C9 expects for file f: each tag value, "Unknown" where absent
expected_info_row(f) ==
    LET t == tag_tuple(f)
    IN  <<IF t[1] = None THEN "Unknown" ELSE t[1],
          IF t[2] = None THEN "Unknown" ELSE t[2],
          IF t[3] = None THEN "Unknown" ELSE t[3],
          song_id_of(f)>>

\* C9: no song_info row has a null value, and once register_song has
\* fingerprinted a file that has hashes and has been through store_song without
\* a connection failure, the store holds the song_info row of the file, with
\* "Unknown" for each absent tag value.
C9_RegistrationWritesSongInfo ==
    /\ \A i \in 1..Len(infoTable) : \A k \in 1..3 : infoTable[i][k] # None
    /\ \A p \in Procs :
          ( /\ proc[p].pc = "done"
            /\ proc[p].op = "register_song"
            /\ ~proc[p].skipped
            /\ proc[p].hashes # << >>
            /\ ~infrastructure_failure(proc[p].exc) )
          => \E i \in 1..Len(infoTable) : infoTable[i] = expected_info_row(proc[p].filename)

RECURSIVE seq_sum(_)
seq_sum(s) == IF s = << >> THEN 0 ELSE s[1] + seq_sum(Tail(s))

\* C10: for the item score_match was last called on, the bins are half a second
\* wide and range from no more than the smallest delta to no less than the
\* largest, they hold every delta (their counts sum to the number of pairs),
\* and the score is the largest bin count, between 1 and the number of pairs.
C10_EveryDeltaIsBinned ==
    bm.seen # << >> =>
        LET last == bm.seen[Len(bm.seen)]
            edges == bin_edges(bm.span)
        IN  /\ \A i \in 1..(Len(edges) - 1) : edges[i + 1] - edges[i] = binwidth
            /\ edges[1] <= bm.span[1] /\ bm.span[2] <= edges[Len(edges)]
            /\ seq_sum(bm.hist) = last[3]
            /\ last[2] = seq_max(bm.hist)
            /\ 1 <= last[2] /\ last[2] <= last[3]

\* every register_song task of the batch has reported and no worker is inside one
batch_finished ==
    /\ \A i \in 1..Len(to_register) : taskResult[i] # "pending"
    /\ \A w \in Workers : proc[w].pc = "idle"

\* checkpoint_db is started (the parent is about to call it, or has called it)
\* only when the batch has finished
C11_CheckpointAfterBatch ==
    (mainPc \in {"checkpoint", "done"} \/ checkpoints > 0) => batch_finished

\* checkpoint_db runs at most once for the batch
C11_CheckpointAtMostOnce == checkpoints <= 1

\* unless a task of the batch met a connection failure or a lock timeout,
\* checkpoint_db is eventually called
C11_CheckpointUnlessStoreFails ==
    <>( \/ checkpoints = 1
        \/ \E i \in 1..Len(to_register) : infrastructure_failure(taskResult[i]) )

\* C11: register_directory checkpoints the store exactly once per batch and
\* only after every register_song task of the batch has finished: checkpoint_db
\* never starts while a worker is still fingerprinting or writing, it never runs
\* twice, and it is eventually called for every batch.
C11_CheckpointOncePerBatch ==
    /\ [](C11_CheckpointAfterBatch /\ C11_CheckpointAtMostOnce)
    /\ <>(checkpoints = 1)

====
